---- MODULE Spec2Model ----
(***************************************************************************)
(* Model of the configuration line parser of the `configuration` crate     *)
(* (src/configuration/src/lib.rs).  A string is a sequence of one-character*)
(* strings; a nom parser is an operator from the input to a record         *)
(*   [ok, rest, out]                                                       *)
(* (IResult: Ok((rest, out)) or Err(Error(()))).  The repetition loop of   *)
(* separated_list1 is run one iteration per step of the state machine.     *)
(***************************************************************************)
EXTENDS Integers, Sequences, FiniteSets, TLC

\* Longest text drawn after the (possibly empty) leading word of an input.
MaxLen == 4

\* Characters of the drawn text: two path characters, space, tab, newline, comma.
Alphabet == {"a", "b", " ", "\t", "\n", ","}

Include == <<"i", "n", "c", "l", "u", "d", "e">>
Exclude == <<"e", "x", "c", "l", "u", "d", "e">>
Comma == <<",">>

\* Leading words of the inputs handed to parse_config_line.
Heads == { <<>>, Include, Exclude,
           Include \o <<" ">>, Exclude \o <<" ">>, Exclude \o <<"\t">>,
           <<" ">> \o Include, <<"e", "x", "c", "l", "u", "d">>,
           <<"i", "m", "p", "o", "r", "t">> }

Texts == UNION { [1..n -> Alphabet] : n \in 0..MaxLen }

Take(s, n) == SubSeq(s, 1, n)
Drop(s, n) == SubSeq(s, n + 1, Len(s))

Err == [ok |-> FALSE, rest |-> <<>>, out |-> <<>>]
Ok(rest, out) == [ok |-> TRUE, rest |-> rest, out |-> out]

(***************************************************************************)
(* Character classes                                                       *)
(***************************************************************************)
\* nom::character::complete::multispace0/1: space, tab, CR, LF.
is_multispace(c) == c \in {" ", "\t", "\r", "\n"}

\* char::is_whitespace, as used by str::trim (the White_Space characters that
\* a TLA+ string can hold).
is_whitespace(c) == c \in {" ", "\t", "\n", "\r", "\f"}

\* The closure |c| c != ',' && c != '\n' of path_list.
is_path_char(c) == c # "," /\ c # "\n"

\* Length of the longest prefix of s whose characters all satisfy P.
span(P(_), s) ==
  CHOOSE k \in 0..Len(s) :
    /\ \A j \in 1..k : P(s[j])
    /\ (k = Len(s) \/ ~P(s[k + 1]))

(***************************************************************************)
(* nom parsers                                                             *)
(***************************************************************************)
\* A `let` binding: body(v), with v evaluated once.
bind(v, body(_)) == CHOOSE r \in { body(x) : x \in {v} } : TRUE

tag(t, inp) ==
  IF Len(inp) >= Len(t) /\ Take(inp, Len(t)) = t
  THEN Ok(Drop(inp, Len(t)), t)
  ELSE Err

multispace0(inp) ==
  bind(span(is_multispace, inp), LAMBDA n : Ok(Drop(inp, n), Take(inp, n)))

\* Faulty variant of multispace1: the empty match is accepted (multispace0).
multispace1_accepts_empty(inp) ==
  bind(span(is_multispace, inp), LAMBDA n : Ok(Drop(inp, n), Take(inp, n)))

multispace1(inp) ==
  bind(span(is_multispace, inp),
       LAMBDA n : IF n >= 1 THEN Ok(Drop(inp, n), Take(inp, n)) ELSE Err)

\* Faulty variant of take_while: the token is returned, the input is not advanced.
take_while_keeps_input(inp) ==
  bind(span(is_path_char, inp), LAMBDA n : Ok(inp, Take(inp, n)))

\* Faulty variant of take_while: a space ends the token as well.
take_while_stops_at_space(inp) ==
  bind(span(LAMBDA c : is_path_char(c) /\ c # " ", inp),
       LAMBDA n : Ok(Drop(inp, n), Take(inp, n)))

\* take_while(|c| c != ',' && c != '\n'): zero or more characters, never fails.
take_while(inp) ==
  bind(span(is_path_char, inp), LAMBDA n : Ok(Drop(inp, n), Take(inp, n)))

delimited(first(_), second(_), third(_), inp) ==
  bind(first(inp), LAMBDA a :
    IF ~a.ok THEN Err
    ELSE bind(second(a.rest), LAMBDA b :
      IF ~b.ok THEN Err
      ELSE bind(third(b.rest), LAMBDA c :
        IF ~c.ok THEN Err ELSE Ok(c.rest, b.out))))

\* tuple((tag(keyword), multispace1, path_list)) up to its third parser.
line_head(keyword, inp) ==
  bind(tag(keyword, inp), LAMBDA a :
    IF ~a.ok THEN Err
    ELSE bind(multispace1(a.rest), LAMBDA b :
      IF ~b.ok THEN Err ELSE Ok(b.rest, <<a.out, b.out>>)))

\* delimited(multispace0, tag(","), multispace0)
separator(inp) ==
  delimited(multispace0, LAMBDA x : tag(Comma, x), multispace0, inp)

(***************************************************************************)
(* separated_list1(separator, take_while): the first element, then one     *)
(* iteration of the loop.  A loop state is [kind, ok, i, res]: kind "loop"  *)
(* carries on with remaining input i and elements res, kind "return" is    *)
(* the parser's result.                                                    *)
(***************************************************************************)
Loop(i, res) == [kind |-> "loop", ok |-> TRUE, i |-> i, res |-> res]
Return(ok, i, res) == [kind |-> "return", ok |-> ok, i |-> i, res |-> res]

\* Faulty variant of separated_list1_first: the first element is not pushed.
separated_list1_first_dropped(inp) ==
  bind(take_while(inp), LAMBDA r :
    IF ~r.ok THEN Return(FALSE, inp, <<>>) ELSE Loop(r.rest, <<>>))

separated_list1_first(inp) ==
  bind(take_while(inp), LAMBDA r :
    IF ~r.ok THEN Return(FALSE, inp, <<>>) ELSE Loop(r.rest, <<r.out>>))

\* Faulty variant of separated_list1_iter: after a separator the iteration
\* keeps its input and its elements.
separated_list1_iter_no_progress(i, res) ==
  bind(separator(i), LAMBDA s :
    IF ~s.ok THEN Return(TRUE, i, res) ELSE Loop(i, res))

separated_list1_iter(i, res) ==
  bind(separator(i), LAMBDA s :
    IF ~s.ok THEN Return(TRUE, i, res)
    ELSE IF Len(s.rest) = Len(i) THEN Return(FALSE, i, res)
    ELSE bind(take_while(s.rest), LAMBDA e :
      IF ~e.ok THEN Return(TRUE, i, res)
      ELSE Loop(e.rest, Append(res, e.out))))

RECURSIVE separated_list1_loop(_, _)
separated_list1_loop(i, res) ==
  bind(separated_list1_iter(i, res), LAMBDA st :
    IF st.kind = "return" THEN st ELSE separated_list1_loop(st.i, st.res))

separated_list1(inp) ==
  bind(separated_list1_first(inp), LAMBDA st :
    IF st.kind = "return" THEN st ELSE separated_list1_loop(st.i, st.res))

(***************************************************************************)
(* str::trim, PathBuf::from_str and the map of path_list                   *)
(***************************************************************************)
trim_start_matches(s) == Drop(s, span(is_whitespace, s))

trim_end_matches(t) ==
  Take(t, Len(t) - (CHOOSE k \in 0..Len(t) :
                      /\ \A j \in (Len(t) - k + 1)..Len(t) : is_whitespace(t[j])
                      /\ (k = Len(t) \/ ~is_whitespace(t[Len(t) - k]))))

trim(s) == trim_end_matches(trim_start_matches(s))

\* <PathBuf as FromStr>::from_str keeps the text as it is and cannot fail
\* (its error type is Infallible), so the unwrap() never panics.
parse(s) == s

\* paths.iter().map(|p| p.trim().parse().unwrap()).collect()
collect(res) == [k \in 1..Len(res) |-> parse(trim(res[k]))]

path_list(inp) ==
  bind(separated_list1(inp), LAMBDA st :
    IF ~st.ok THEN Err ELSE Ok(st.i, collect(st.res)))

(***************************************************************************)
(* The state machine: one call of path_list or parse_config_line           *)
(***************************************************************************)
VARIABLES
  entry,    \* the function called: "path_list" or "parse_config_line" ("none" before the call)
  input,    \* its argument
  pc,       \* position of the call
  branch,   \* the alternative of alt(...) being run: "Include", "Exclude", "none"
  i,        \* remaining input
  res,      \* elements collected by separated_list1
  paths,    \* the Vec<PathBuf> built by path_list
  result    \* the IResult returned: [ok, rest, variant, paths]

vars == <<entry, input, pc, branch, i, res, paths, result>>

NoResult == [ok |-> FALSE, rest |-> <<>>, variant |-> "none", paths |-> <<>>]

Init ==
  /\ entry = "none"
  /\ input = <<>>
  /\ pc = "idle"
  /\ branch = "none"
  /\ i = <<>>
  /\ res = <<>>
  /\ paths = <<>>
  /\ result = NoResult

\* The caller invokes path_list(input) on some text.
call_path_list ==
  /\ pc = "idle"
  /\ \E t \in Texts :
       /\ input' = t
       /\ i' = t
  /\ entry' = "path_list"
  /\ pc' = "first"
  /\ UNCHANGED <<branch, res, paths, result>>

\* The caller invokes parse_config_line(input) on some text;
\* alt((include_line, exclude_line)) runs include_line first.
parse_config_line ==
  /\ pc = "idle"
  /\ \E h \in Heads, t \in Texts :
       /\ input' = h \o t
       /\ i' = h \o t
  /\ entry' = "parse_config_line"
  /\ pc' = "include_line"
  /\ UNCHANGED <<branch, res, paths, result>>

\* A failure inside an alternative: alt goes on to the next alternative with
\* the whole input, and fails when there is none left.
Fail ==
  IF entry = "parse_config_line" /\ branch = "Include"
  THEN /\ pc' = "exclude_line"
       /\ i' = input
       /\ UNCHANGED result
  ELSE /\ pc' = "done"
       /\ i' = i
       /\ result' = NoResult

\* Faulty variant of include_line: the Exclude variant is built.
include_line_returns_exclude ==
  /\ pc = "include_line"
  /\ \E r \in {line_head(Include, i)} :
         IF r.ok
         THEN /\ branch' = "Exclude"
              /\ pc' = "first"
              /\ i' = r.rest
              /\ UNCHANGED result
         ELSE /\ branch' = "Include"
              /\ pc' = "exclude_line"
              /\ i' = input
              /\ UNCHANGED result
  /\ UNCHANGED <<entry, input, res, paths>>

\* include_line: tag("include"), multispace1 of the tuple; path_list follows.
include_line ==
  /\ pc = "include_line"
  /\ \E r \in {line_head(Include, i)} :
         IF r.ok
         THEN /\ branch' = "Include"
              /\ pc' = "first"
              /\ i' = r.rest
              /\ UNCHANGED result
         ELSE /\ branch' = "Include"
              /\ pc' = "exclude_line"
              /\ i' = input
              /\ UNCHANGED result
  /\ UNCHANGED <<entry, input, res, paths>>

\* exclude_line: tag("exclude"), multispace1 of the tuple; path_list follows.
exclude_line ==
  /\ pc = "exclude_line"
  /\ \E r \in {line_head(Exclude, i)} :
         IF r.ok
         THEN /\ branch' = "Exclude"
              /\ pc' = "first"
              /\ i' = r.rest
              /\ UNCHANGED result
         ELSE /\ branch' = "Exclude"
              /\ pc' = "done"
              /\ i' = i
              /\ result' = NoResult
  /\ UNCHANGED <<entry, input, res, paths>>

\* path_list: the first element of separated_list1.
path_list_first ==
  /\ pc = "first"
  /\ \E st \in {separated_list1_first(i)} :
         IF st.kind = "loop"
         THEN /\ pc' = "loop"
              /\ i' = st.i
              /\ res' = st.res
              /\ UNCHANGED result
         ELSE /\ res' = <<>>
              /\ Fail
  /\ UNCHANGED <<entry, input, branch, paths>>

\* path_list: one iteration of the loop of separated_list1 (separator, element).
path_list_iter ==
  /\ pc = "loop"
  /\ \E st \in {separated_list1_iter(i, res)} :
         /\ st.kind = "loop"
         /\ i' = st.i
         /\ res' = st.res
  /\ UNCHANGED <<entry, input, pc, branch, paths, result>>

\* path_list: the loop of separated_list1 returns.
path_list_exit ==
  /\ pc = "loop"
  /\ \E st \in {separated_list1_iter(i, res)} :
         /\ st.kind = "return"
         /\ IF st.ok
            THEN /\ pc' = "collect"
                 /\ i' = st.i
                 /\ res' = st.res
                 /\ UNCHANGED result
            ELSE /\ res' = <<>>
                 /\ Fail
  /\ UNCHANGED <<entry, input, branch, paths>>

\* path_list: Ok((tail, paths...collect())), returned to the caller or to the
\* tuple of include_line / exclude_line.
path_list_return ==
  /\ pc = "collect"
  /\ paths' = collect(res)
  /\ IF entry = "path_list"
     THEN /\ pc' = "done"
          /\ result' = [ok |-> TRUE, rest |-> i, variant |-> "none", paths |-> paths']
     ELSE /\ pc' = "wrap"
          /\ UNCHANGED result
  /\ UNCHANGED <<entry, input, branch, i, res>>

\* include_line / exclude_line: Ok((tail, ConfigLine::Include(paths))).
config_line_return ==
  /\ pc = "wrap"
  /\ pc' = "done"
  /\ result' = [ok |-> TRUE, rest |-> i, variant |-> branch, paths |-> paths]
  /\ UNCHANGED <<entry, input, branch, i, res, paths>>

\* The steps of a call under way.
Run ==
  \/ include_line
  \/ exclude_line
  \/ path_list_first
  \/ path_list_iter
  \/ path_list_exit
  \/ path_list_return
  \/ config_line_return

Next ==
  \/ call_path_list
  \/ parse_config_line
  \/ Run

Spec == Init /\ [][Next]_vars

\* A call that has started runs on: the parser is straight-line code that
\* nothing else interleaves with.  Whether a call is made is up to the caller.
FairSpec == Spec /\ WF_vars(Run)

(***************************************************************************)
(* Properties.  The expected values are computed from the input text alone *)
(* (split at the commas, strip both ends), not by the parsers above.       *)
(***************************************************************************)
Done == pc = "done"

IsBlank(c) == c \in {" ", "\t", "\n", "\r", "\f"}
IsSpaceOrTab(c) == c \in {" ", "\t"}

NoNewline(s) == \A k \in 1..Len(s) : s[k] # "\n"
HasComma(s) == \E k \in 1..Len(s) : s[k] = ","
FirstIndex(s, c) == CHOOSE k \in 1..Len(s) : s[k] = c /\ \A j \in 1..(k - 1) : s[j] # c

RECURSIVE SplitOnComma(_)
SplitOnComma(s) ==
  IF ~HasComma(s) THEN <<s>>
  ELSE LET k == FirstIndex(s, ",")
       IN  <<Take(s, k - 1)>> \o SplitOnComma(Drop(s, k))

RECURSIVE StripLeft(_)
StripLeft(s) == IF s # <<>> /\ IsBlank(Head(s)) THEN StripLeft(Tail(s)) ELSE s

RECURSIVE StripRight(_)
StripRight(s) ==
  IF s # <<>> /\ IsBlank(s[Len(s)]) THEN StripRight(Take(s, Len(s) - 1)) ELSE s

Strip(s) == StripRight(StripLeft(s))

StrippedPieces(s) ==
  LET ps == SplitOnComma(s) IN [k \in 1..Len(ps) |-> Strip(ps[k])]

\* A comma-separated list of paths of the grammar, each with at least one
\* character that is not blank, with spaces and tabs around the commas.
ValidPathList(s) ==
  /\ NoNewline(s)
  /\ \A k \in 1..Len(SplitOnComma(s)) : Strip(SplitOnComma(s)[k]) # <<>>

VariantOf(keyword) == IF keyword = Include THEN "Include" ELSE "Exclude"

\* input = keyword, then n >= 1 spaces or tabs, then a valid path list.
KeywordLine(keyword, n) ==
  /\ n >= 1
  /\ Len(input) >= Len(keyword) + n
  /\ Take(input, Len(keyword)) = keyword
  /\ \A k \in (Len(keyword) + 1)..(Len(keyword) + n) : IsSpaceOrTab(input[k])
  /\ ValidPathList(Drop(input, Len(keyword) + n))

\* input begins with a keyword immediately followed by a whitespace character.
BeginsWithKeyword ==
  \E keyword \in {Include, Exclude} :
    /\ Len(input) > Len(keyword)
    /\ Take(input, Len(keyword)) = keyword
    /\ IsBlank(input[Len(keyword) + 1])

\* s is a valid path list, then a comma, then nothing but blanks and newlines.
TrailingDelimiter(s) ==
  \E k \in 1..Len(s) :
    /\ s[k] = ","
    /\ \A j \in (k + 1)..Len(s) : IsBlank(s[j])
    /\ ValidPathList(Take(s, k - 1))

\* C1: path_list on a valid comma-separated path list (spaces and tabs around
\* the commas, no newline) succeeds and returns exactly the paths, in order,
\* each stripped of leading and trailing whitespace, interior whitespace kept.
C1_PathListReturnsTrimmedPaths ==
  (Done /\ entry = "path_list" /\ ValidPathList(input)) =>
    /\ result.ok
    /\ result.paths = StrippedPieces(input)

C1_Witness ==
  /\ Done /\ entry = "path_list" /\ ValidPathList(input)
  /\ input = <<"a", " ", ",", "b">>
  /\ result.paths = << <<"a">>, <<"b">> >>

\* C2: on keyword, one or more spaces or tabs, valid path list, parse_config_line
\* succeeds with the variant the keyword names and the paths path_list returns
\* for the text after the whitespace.
C2_KeywordLineParses ==
  (Done /\ entry = "parse_config_line") =>
    \A keyword \in {Include, Exclude} : \A n \in 1..Len(input) :
      KeywordLine(keyword, n) =>
        /\ result.ok
        /\ result.variant = VariantOf(keyword)
        /\ result.paths = path_list(Drop(input, Len(keyword) + n)).out

C2_Witness ==
  /\ Done /\ entry = "parse_config_line"
  /\ KeywordLine(Exclude, 1)
  /\ result.ok /\ result.variant = "Exclude"
  /\ result.paths = << <<"a">>, <<"b">> >>

\* C3: parse_config_line fails on every input that does not begin with
\* "include" or "exclude" immediately followed by a whitespace character.
C3_FailsWithoutKeywordAndSpace ==
  (Done /\ entry = "parse_config_line" /\ ~BeginsWithKeyword) => ~result.ok

C3_Witness ==
  /\ Done /\ entry = "parse_config_line"
  /\ Len(input) > Len(Include) /\ Take(input, Len(Include)) = Include
  /\ input[Len(Include) + 1] = "a"
  /\ ~result.ok

\* C4: path_list fails on the empty string, and parse_config_line fails on a
\* keyword followed only by whitespace.
C4_EmptyPathListFails ==
  /\ (Done /\ entry = "path_list" /\ input = <<>>) => ~result.ok
  /\ (Done /\ entry = "parse_config_line" /\ BeginsWithKeyword
           /\ \A k \in (Len(Include) + 1)..Len(input) : IsBlank(input[k]))
       => ~result.ok

\* C5: path_list fails on a valid path list followed by a comma with no path
\* token after it.
C5_TrailingDelimiterFails ==
  (Done /\ entry = "path_list" /\ TrailingDelimiter(input)) => ~result.ok

\* C6: every directive parse_config_line returns carries at least one path.
C6_DirectiveHasAPath ==
  (Done /\ entry = "parse_config_line" /\ result.ok) =>
    /\ result.variant \in {"Include", "Exclude"}
    /\ Len(result.paths) >= 1

C6_Witness ==
  /\ Done /\ entry = "parse_config_line" /\ result.ok
  /\ result.variant = "Include"
  /\ result.paths = << <<"a">> >>

\* C7: every path of a successful path_list or parse_config_line has one or
\* more characters, none of them a comma or a newline.
C7_PathsAreNonEmpty ==
  (Done /\ result.ok) =>
    \A k \in 1..Len(result.paths) :
      /\ Len(result.paths[k]) >= 1
      /\ \A j \in 1..Len(result.paths[k]) :
           result.paths[k][j] # "," /\ result.paths[k][j] # "\n"

\* C8: on an input with a newline, a successful path_list returns only paths
\* of the text before the first newline and a remainder that starts at it.
C8_NewlineTerminatesList ==
  (Done /\ entry = "path_list" /\ result.ok /\ ~NoNewline(input)) =>
    LET k == FirstIndex(input, "\n")
    IN  /\ result.rest = Drop(input, k - 1)
        /\ result.paths = StrippedPieces(Take(input, k - 1))

\* C9: when parse_config_line succeeds, the input is a non-empty consumed
\* prefix followed by the returned remainder, and the returned paths are the
\* stripped tokens of the consumed prefix after its keyword.
C9_NoDoubleConsumption ==
  (Done /\ entry = "parse_config_line" /\ result.ok) =>
    LET k == Len(input) - Len(result.rest)
    IN  /\ k >= 1
        /\ result.rest = Drop(input, k)
        /\ input = Take(input, k) \o result.rest
        /\ result.paths = StrippedPieces(Drop(Take(input, k), Len(Include)))

C9_Witness ==
  /\ Done /\ entry = "parse_config_line" /\ result.ok
  /\ result.rest # <<>>
  /\ Len(result.paths) >= 2

\* C10: every call that is made terminates with a result, and every iteration of the
\* separator-then-token loop shortens the remaining input.
C10_Total ==
  /\ (pc # "idle") ~> Done
  /\ [][(pc = "loop" /\ pc' = "loop") => Len(i') < Len(i)]_vars
  /\ [](Len(res) <= Len(input) + 1)

C10_Witness ==
  /\ Done /\ entry = "parse_config_line" /\ result.ok
  /\ Len(res) >= 3

====
